---- MODULE Spec2Model ----
(***************************************************************************)
(* A model of the page-element pipeline of demo_page_edit.py:              *)
(*   parse_html_to_json            the markup normaliser (a pure function) *)
(*   process_document / process_single_image / process_elements            *)
(*   save_outputs_with_html_parsing / save_combined_pdf_results_...        *)
(*   main and predict (src/api.py), the ways a document comes in           *)
(*                                                                         *)
(* Python strings are sequences of lexemes ("tokens"): a start tag, an end *)
(* tag, a single character of text, or a declaration that html.parser      *)
(* rejects.  The text characters are a digit, a blank and the two lone     *)
(* angle brackets; none of them joins a neighbour into a tag, so a token   *)
(* sequence is read by html.parser exactly token by token.                 *)
(***************************************************************************)
EXTENDS Integers, Sequences, FiniteSets, TLC

\* ------------------------------------------------------------------ bounds
\* Longest markup string (in tokens) handed to parse_html_to_json directly.
MaxTokens == 3
\* Most pages of a PDF and most layout boxes of a document (all its pages
\* together).
MaxPages == 2
MaxBoxes == 3

\* max_batch_size: the default of the service and of the command line, and
\* the smallest value.
DefaultBatchSize == 4
BatchSizes == {1, DefaultBatchSize}

\* ------------------------------------------------------------ Python values
\* An attribute of a start tag: absent, or present with its value (a sequence
\* of characters).
Absent == [present |-> FALSE, v |-> <<>>]
Attr(v) == [present |-> TRUE, v |-> v]

Open(n) == [k |-> "open", name |-> n, colspan |-> Absent, rowspan |-> Absent]
Cell(n, cs, rs) == [k |-> "open", name |-> n, colspan |-> cs, rowspan |-> rs]
Close(n) == [k |-> "close", name |-> n, colspan |-> Absent, rowspan |-> Absent]
Chr(c) == [k |-> "chr", name |-> c, colspan |-> Absent, rowspan |-> Absent]
Bad(c) == [k |-> "bad", name |-> c, colspan |-> Absent, rowspan |-> Absent]

\* What html.parser reads each token of a string as.  U+00B2 is SUPERSCRIPT
\* TWO, written sup2 in attribute values.  "<![" is a malformed declaration:
\* html.parser raises on it and BeautifulSoup turns that into
\* ParserRejectedMarkup.
Lex ==
  [t \in {"<table>", "</table>", "<tr>", "<td>", "<td colspan=0>",
          "<td colspan=2 rowspan=>", "<th colspan=x rowspan=12>",
          "<th rowspan=U+00B2>", "<ul>", "<ol>", "<li>", "<h1>", "<h2>", "<p>",
          "</p>",
          "1", " ", "<", ">", "<![", "![Figure]"} |->
     CASE t = "<table>" -> Open("table")
       [] t = "</table>" -> Close("table")
       [] t = "<tr>" -> Open("tr")
       [] t = "<td>" -> Open("td")
       [] t = "<td colspan=0>" -> Cell("td", Attr(<<"0">>), Absent)
       [] t = "<td colspan=2 rowspan=>" -> Cell("td", Attr(<<"2">>), Attr(<<>>))
       [] t = "<th colspan=x rowspan=12>" -> Cell("th", Attr(<<"x">>), Attr(<<"1", "2">>))
       [] t = "<th rowspan=U+00B2>" -> Cell("th", Absent, Attr(<<"sup2">>))
       [] t = "<ul>" -> Open("ul")
       [] t = "<ol>" -> Open("ol")
       [] t = "<li>" -> Open("li")
       [] t = "<h1>" -> Open("h1")
       [] t = "<h2>" -> Open("h2")
       [] t = "<p>" -> Open("p")
       [] t = "</p>" -> Close("p")
       [] t = "<![" -> Bad(t)
       [] OTHER -> Chr(t)]

\* "![Figure]" is the markdown link process_elements writes for a figure
\* (its path is kept in figure_path): plain characters, no angle bracket.
FigureLink == <<"![Figure]">>

\* The tokens the inputs of the normaliser are drawn from.
Alphabet == DOMAIN Lex \ {"![Figure]"}

\* A Python value as the code tests it: None, a str, or some other object.
PyNone == [ty |-> "none", s |-> <<>>]
PyObj == [ty |-> "obj", s |-> <<>>]
Str(s) == [ty |-> "str", s |-> s]

\* bool(x): None and the empty string are falsy, the other object stands for a
\* truthy non-string (a dict, a number other than 0).
Truthy(x) == x.ty = "obj" \/ (x.ty = "str" /\ Len(x.s) > 0)

\* ch in s, for the two characters line 33 looks for.
HasLt(s) == \E i \in 1..Len(s) : Lex[s[i]].k # "chr" \/ s[i] = "<"
HasGt(s) == \E i \in 1..Len(s) : Lex[s[i]].k \in {"open", "close"} \/ s[i] = ">"

IsSpace(c) == c = " "

RECURSIVE LStrip(_)
LStrip(s) == IF Len(s) > 0 /\ IsSpace(s[1]) THEN LStrip(Tail(s)) ELSE s

RECURSIVE RStrip(_)
RStrip(s) ==
  IF Len(s) > 0 /\ IsSpace(s[Len(s)]) THEN RStrip(SubSeq(s, 1, Len(s) - 1)) ELSE s

\* str.strip()
Strip(s) == RStrip(LStrip(s))

\* str.isdigit(): non-empty and every character a digit character.  "sup2" is
\* U+00B2 SUPERSCRIPT TWO, a digit character that int() does not accept.
AsciiDigits == {"0", "1", "2", "3"}
DigitChars == AsciiDigits \cup {"sup2"}
IsDigit(v) == Len(v) > 0 /\ \A i \in 1..Len(v) : v[i] \in DigitChars

DigitVal(c) == CASE c = "0" -> 0 [] c = "1" -> 1 [] c = "2" -> 2 [] OTHER -> 3

RECURSIVE Decimal(_)
Decimal(v) ==
  IF Len(v) = 0 THEN 0
  ELSE 10 * Decimal(SubSeq(v, 1, Len(v) - 1)) + DigitVal(v[Len(v)])

\* int(v) for a v that passed isdigit(): the value, or ValueError.
PyInt(v) ==
  IF \A i \in 1..Len(v) : v[i] \in AsciiDigits
  THEN [raised |-> FALSE, val |-> Decimal(v)]
  ELSE [raised |-> TRUE, val |-> 0]

\* -------------------------------------------------- BeautifulSoup(html.parser)
\* The tree is kept as the token sequence plus, for every start tag, the
\* position where its element ends.  A start tag opens an element under the
\* innermost open one; an end tag closes the innermost open element of that
\* name and everything opened inside it, and is ignored when there is none;
\* the end of input closes whatever is open.
RECURSIVE TopMost(_, _, _)
TopMost(toks, stack, n) ==
  IF Len(stack) = 0 THEN 0
  ELSE IF toks[stack[Len(stack)]].name = n THEN Len(stack)
  ELSE TopMost(toks, SubSeq(stack, 1, Len(stack) - 1), n)

RECURSIVE Ends(_, _, _, _)
Ends(toks, i, stack, ends) ==
  IF i > Len(toks)
  THEN [j \in 1..Len(toks) |->
          IF \E q \in 1..Len(stack) : stack[q] = j THEN Len(toks) + 1 ELSE ends[j]]
  ELSE IF toks[i].k = "open" THEN Ends(toks, i + 1, Append(stack, i), ends)
  ELSE IF toks[i].k = "close"
  THEN LET p == TopMost(toks, stack, toks[i].name) IN
       IF p = 0 THEN Ends(toks, i + 1, stack, ends)
       ELSE Ends(toks, i + 1, SubSeq(stack, 1, p - 1),
                 [j \in 1..Len(toks) |->
                    IF \E q \in p..Len(stack) : stack[q] = j THEN i ELSE ends[j]])
  ELSE Ends(toks, i + 1, stack, ends)

BeautifulSoup(s) ==
  LET toks == [j \in 1..Len(s) |-> Lex[s[j]]] IN
  IF \E i \in 1..Len(s) : toks[i].k = "bad"
  THEN [raised |-> TRUE, src |-> s, toks |-> toks, ends |-> [j \in 1..Len(s) |-> j]]
  ELSE [raised |-> FALSE, src |-> s, toks |-> toks,
        ends |-> Ends(toks, 1, <<>>, [j \in 1..Len(s) |-> j])]

\* tag.find_all(names): the descendants of the element at lo (0: the whole
\* document, ending at hi) that are elements with one of the names, in
\* document order.
RECURSIVE FindIn(_, _, _, _)
FindIn(soup, lo, hi, names) ==
  IF lo + 1 >= hi THEN <<>>
  ELSE LET t == soup.toks[lo + 1]
           rest == FindIn(soup, lo + 1, hi, names)
       IN IF t.k = "open" /\ t.name \in names THEN <<lo + 1>> \o rest ELSE rest

DocEnd(soup) == Len(soup.toks) + 1
FindAll(soup, names) == FindIn(soup, 0, DocEnd(soup), names)
FindAllUnder(soup, el, names) == FindIn(soup, el, soup.ends[el], names)

\* get_text(strip=True): every text string under the element (a maximal run
\* of characters between two tags), stripped, the empty ones dropped, joined.
RECURSIVE TextIn(_, _, _, _)
TextIn(soup, lo, hi, run) ==
  IF lo + 1 >= hi THEN Strip(run)
  ELSE LET t == soup.toks[lo + 1] IN
       IF t.k = "chr" THEN TextIn(soup, lo + 1, hi, Append(run, t.name))
       ELSE Strip(run) \o TextIn(soup, lo + 1, hi, <<>>)

GetText(soup, el) ==
  IF el = 0 THEN TextIn(soup, 0, DocEnd(soup), <<>>)
  ELSE TextIn(soup, el, soup.ends[el], <<>>)

\* ------------------------------------------------------- parse_html_to_json
TextNode(x) == [type |-> "text", content |-> x]
ErrorNode(x, e) == [type |-> "text", content |-> x, parse_error |-> e]
Returns(v) == [raised |-> FALSE, value |-> v, error |-> ""]
Raises(e) == [raised |-> TRUE, value |-> TextNode(PyNone), error |-> e]

\* int(cell.get(a, 1)) if cell.get(a, '1').isdigit() else 1
Span(a) ==
  IF ~a.present THEN [raised |-> FALSE, val |-> 1]
  ELSE IF IsDigit(a.v) THEN PyInt(a.v)
  ELSE [raised |-> FALSE, val |-> 1]

CellRaises(soup, c) ==
  Span(soup.toks[c].colspan).raised \/ Span(soup.toks[c].rowspan).raised

CellInfo(soup, c) ==
  [content |-> GetText(soup, c),
   tag |-> soup.toks[c].name,
   colspan |-> Span(soup.toks[c].colspan).val,
   rowspan |-> Span(soup.toks[c].rowspan).val]

RowCells(soup, row) == FindAllUnder(soup, row, {"td", "th"})
TableRows(soup, table) == FindAllUnder(soup, table, {"tr"})

RowData(soup, row) ==
  LET cells == RowCells(soup, row) IN
  [ci \in 1..Len(cells) |-> CellInfo(soup, cells[ci])]

TableData(soup, table) ==
  LET rows == TableRows(soup, table) IN
  [type |-> "table", rows |-> [ri \in 1..Len(rows) |-> RowData(soup, rows[ri])]]

TableRaises(soup, table) ==
  LET rows == TableRows(soup, table) IN
  \E ri \in 1..Len(rows) :
    LET cells == RowCells(soup, rows[ri]) IN
    \E ci \in 1..Len(cells) : CellRaises(soup, cells[ci])

\* lines 39-70: the table branch, taken when find_all('table') is not empty.
ParseTables(soup, tables) ==
  IF \E ti \in 1..Len(tables) : TableRaises(soup, tables[ti])
  THEN Raises("invalid literal for int()")
  ELSE LET parsed_tables == [ti \in 1..Len(tables) |-> TableData(soup, tables[ti])] IN
       IF Len(parsed_tables) = 1 THEN Returns(parsed_tables[1])
       ELSE Returns([type |-> "multiple_tables", tables |-> parsed_tables])

ListNames == {"ul", "ol"}
HeadingNames == {"h1", "h2", "h3", "h4", "h5", "h6"}
ParagraphNames == {"p"}

\* int(heading.name[1])
HeadingLevel(n) ==
  CASE n = "h1" -> 1 [] n = "h2" -> 2 [] n = "h3" -> 3
    [] n = "h4" -> 4 [] n = "h5" -> 5 [] OTHER -> 6

ListData(soup, l) ==
  LET list_items == FindAllUnder(soup, l, {"li"}) IN
  [type |-> "list",
   list_type |-> soup.toks[l].name,
   items |-> [ii \in 1..Len(list_items) |-> GetText(soup, list_items[ii])]]

HeadingData(soup, h) ==
  [type |-> "heading",
   level |-> HeadingLevel(soup.toks[h].name),
   content |-> GetText(soup, h)]

ParaData(soup, p) == [type |-> "paragraph", content |-> GetText(soup, p)]

\* lines 72-103: lists, then headings, then paragraphs, appended in that order.
StructuredHeadingsFirst(soup) ==
  LET lists == FindAll(soup, ListNames)
      headings == FindAll(soup, HeadingNames)
      paragraphs == FindAll(soup, ParagraphNames)
  IN [i \in 1..Len(headings) |-> HeadingData(soup, headings[i])]
     \o [i \in 1..Len(lists) |-> ListData(soup, lists[i])]
     \o [i \in 1..Len(paragraphs) |-> ParaData(soup, paragraphs[i])]
StructuredContent(soup) ==
  LET lists == FindAll(soup, ListNames)
      headings == FindAll(soup, HeadingNames)
      paragraphs == FindAll(soup, ParagraphNames)
  IN [i \in 1..Len(lists) |-> ListData(soup, lists[i])]
     \o [i \in 1..Len(headings) |-> HeadingData(soup, headings[i])]
     \o [i \in 1..Len(paragraphs) |-> ParaData(soup, paragraphs[i])]

\* lines 37-114: the body of the try block.
ParseBody(s) ==
  LET soup == BeautifulSoup(s) IN
  IF soup.raised THEN Raises("ParserRejectedMarkup")
  ELSE LET tables == FindAll(soup, {"table"}) IN
       IF Len(tables) > 0 THEN ParseTables(soup, tables)
       ELSE LET structured_content == StructuredContent(soup) IN
            IF Len(structured_content) = 1 THEN Returns(structured_content[1])
            ELSE IF Len(structured_content) > 1
            THEN Returns([type |-> "mixed_content", elements |-> structured_content])
            ELSE Returns(TextNode(Str(GetText(soup, 0))))

\* lines 36, 116-119: try ... except Exception.
TryPropagate(html_text) == ParseBody(html_text.s)
TryExcept(html_text) ==
  LET r == ParseBody(html_text.s) IN
  IF r.raised THEN Returns(ErrorNode(html_text, r.error)) ELSE r

parse_html_to_json(html_text) ==
  IF ~Truthy(html_text) \/ html_text.ty # "str" THEN Returns(TextNode(html_text))
  ELSE IF ~(HasLt(html_text.s) /\ HasGt(html_text.s)) THEN Returns(TextNode(html_text))
  ELSE TryExcept(html_text)

\* --------------------------------------------------------- process_elements
\* A layout box as parse_layout_string yields it: its label and what becomes
\* of its geometry on this page: "ok" (a crop of positive size),
\* "zero" (cropped.size == 0), "coord_error" (process_coordinates raises),
\* "crop_error" (the colour conversion, Image.fromarray or
\* save_figure_to_local raises after the coordinates were mapped).
Labels == {"fig", "tab", "para"}
Geoms == {"ok", "zero", "coord_error", "crop_error"}
\* The label of a box is read only once its crop has a positive size (line
\* 218), so the boxes dropped before that are drawn with one label.
Boxes ==
  {b \in [label : Labels, geom : Geoms] :
     b.geom \in {"zero", "coord_error"} => b.label = "para"}
Layouts(n) == UNION {[1..m -> Boxes] : m \in 0..n}

\* What the recognition backend may answer for one crop.
BackendTexts == {<<" ">>, <<" ", "<p>", "1", "</p>", " ">>}

NoBox == 0

\* process_coordinates(bbox, padded_image, dims, previous_box): the mapped
\* box (the box's position in the layout stands for its coordinates) and the
\* box to pass to the next call, or an exception.
process_coordinates(box, bbox, previous_box) ==
  IF box.geom = "coord_error"
  THEN [raised |-> TRUE, orig |-> bbox, previous_box |-> previous_box]
  ELSE [raised |-> FALSE, orig |-> bbox, previous_box |-> bbox]

\* line 237
PromptFor(label) ==
  IF label = "tab" THEN "Parse the table in the image." ELSE "Read text in the image."

\* lines 225-233
FigureElement(label, image_name, bbox, reading_order) ==
  [label |-> label,
   text |-> FigureLink,
   figure_path |-> <<"figures", image_name, reading_order>>,
   bbox |-> bbox,
   reading_order |-> reading_order]

\* lines 238-246
QueuedElement(label, bbox, reading_order) ==
  [crop |-> bbox,
   prompt |-> PromptFor(label),
   label |-> label,
   bbox |-> bbox,
   reading_order |-> reading_order]

\* lines 257-261: the one recognition call of a page.
RecognitionCallBatched(page, elems, mbs) ==
  LET n == IF Len(elems) < mbs THEN Len(elems) ELSE mbs IN
  [op |-> "recognize", page |-> page,
   prompts |-> [i \in 1..n |-> elems[i].prompt],
   crops |-> [i \in 1..n |-> elems[i].crop],
   max_batch_size |-> mbs]
RecognitionCall(page, elems, mbs) ==
  [op |-> "recognize", page |-> page,
   prompts |-> [i \in 1..Len(elems) |-> elems[i].prompt],
   crops |-> [i \in 1..Len(elems) |-> elems[i].crop],
   max_batch_size |-> mbs]

\* A backend call as it went: the request, whether it succeeded, the answer.
Went(req, ok, answer) == [req |-> req, ok |-> ok, answer |-> answer]

\* line 182
LayoutCall(page) ==
  [op |-> "layout", page |-> page, prompts |-> <<>>, crops |-> <<>>,
   max_batch_size |-> 0]

\* lines 264-273: the results zipped onto the queued elements by position.
ZipReversed(elems, batch_results) ==
  [i \in 1..Len(batch_results) |->
     [label |-> elems[i].label,
      bbox |-> elems[i].bbox,
      text |-> Strip(batch_results[Len(batch_results) + 1 - i]),
      reading_order |-> elems[i].reading_order]]
ZipResults(elems, batch_results) ==
  [i \in 1..Len(batch_results) |->
     [label |-> elems[i].label,
      bbox |-> elems[i].bbox,
      text |-> Strip(batch_results[i]),
      reading_order |-> elems[i].reading_order]]

\* list.sort(key=reading_order): a stable sort.
RECURSIVE InsertByReadingOrder(_, _)
InsertByReadingOrder(sorted, e) ==
  IF Len(sorted) = 0 THEN <<e>>
  ELSE IF sorted[Len(sorted)].reading_order <= e.reading_order THEN Append(sorted, e)
  ELSE Append(InsertByReadingOrder(SubSeq(sorted, 1, Len(sorted) - 1), e),
              sorted[Len(sorted)])

RECURSIVE SortFrom(_, _)
SortFrom(sorted, rest) ==
  IF Len(rest) = 0 THEN sorted
  ELSE SortFrom(InsertByReadingOrder(sorted, rest[1]), Tail(rest))

Unsorted(results) == results
SortByReadingOrder(results) == SortFrom(<<>>, results)

\* ------------------------------------------------------------ saving results
\* The elements of all pages in one list.
RECURSIVE FlattenPages(_)
FlattenPages(pages) ==
  IF Len(pages) = 0 THEN <<>> ELSE pages[1].elements \o FlattenPages(Tail(pages))

\* lines 372-381 and 301-309: a copy of every element, with parsed_content
\* when the element has a non-empty text.
WithParsedContent(element) ==
  IF "text" \in DOMAIN element /\ Truthy(Str(element.text))
  THEN [f \in DOMAIN element \cup {"parsed_content"} |->
          IF f = "parsed_content" THEN parse_html_to_json(Str(element.text)).value
          ELSE element[f]]
  ELSE element

JsonElements(elements) == [i \in 1..Len(elements) |-> WithParsedContent(elements[i])]

\* lines 296-312
ProcessedPagesFlattened(all_page_results) ==
  IF Len(all_page_results) = 0 THEN <<>>
  ELSE <<[page_number |-> 1,
          elements |->
            JsonElements(FlattenPages(all_page_results))]>>
ProcessedPages(all_page_results) ==
  [i \in 1..Len(all_page_results) |->
     [page_number |-> all_page_results[i].page_number,
      elements |-> JsonElements(all_page_results[i].elements)]]

PageSeparator(n) ==
  [label |-> "page_separator", text |-> <<"---">>, reading_order |-> n]

\* lines 334-345: the list handed to the markdown converter.
RECURSIVE AllElementsEveryPage(_, _)
AllElementsEveryPage(all_page_results, all_elements) ==
  IF Len(all_page_results) = 0 THEN all_elements
  ELSE LET page_elements == all_page_results[1].elements IN
       AllElementsEveryPage(Tail(all_page_results),
         (IF Len(all_elements) > 0
          THEN Append(all_elements, PageSeparator(Len(all_elements)))
          ELSE all_elements) \o page_elements)

RECURSIVE AllElements(_, _)
AllElements(all_page_results, all_elements) ==
  IF Len(all_page_results) = 0 THEN all_elements
  ELSE LET page_elements == all_page_results[1].elements IN
       AllElements(Tail(all_page_results),
         IF Len(page_elements) > 0
         THEN (IF Len(all_elements) > 0
               THEN Append(all_elements, PageSeparator(Len(all_elements)))
               ELSE all_elements) \o page_elements
         ELSE all_elements)

\* ------------------------------------------------------------------- state
VARIABLES
  html_text, parsed, hpc,      \* a direct call of parse_html_to_json
  pc,                          \* where process_document stands
  doc,                         \* the document: how it came in, its extension
                               \* and its pages
  max_batch_size,
  page_idx,                    \* the page in work (0-based)
  all_results,                 \* process_document's list of page results
  layout_results, box_idx,     \* the page's boxes and how many the loop took
  text_table_elements, figure_results, previous_box, reading_order,
  recognition_results,         \* what process_elements returned for the page
  calls,                       \* the backend calls made, in order, each with
                               \* what the backend answered
  boxes_seen,                  \* layout boxes of the document so far
  json_out, markdown_out,      \* the files written
  outcome                      \* what the entry point got back: returned or raised

htmlvars == <<html_text, parsed, hpc>>
pagevars == <<layout_results, box_idx, text_table_elements, figure_results,
              previous_box, reading_order>>
docvars == <<pc, doc, max_batch_size, page_idx, all_results, recognition_results,
             calls, boxes_seen, json_out, markdown_out, outcome>>
vars == <<htmlvars, pagevars, docvars>>

\* The strings of at most n tokens.
Strings(n) == UNION {[1..m -> Alphabet] : m \in 0..n}

HtmlInputs == {PyNone, PyObj} \cup {Str(s) : s \in Strings(MaxTokens)}

NotParsed == Returns(TextNode(PyNone))
NoJson == [written |-> FALSE, kind |-> "none", elements |-> <<>>, pages |-> <<>>,
           total_pages |-> 0]
NoMarkdown == [written |-> FALSE, elements |-> <<>>]
Running == [status |-> "running", json_path |-> "", results |-> <<>>, error |-> ""]
Returned(json_path, results) ==
  [status |-> "returned", json_path |-> json_path, results |-> results, error |-> ""]
Raised(e) == [status |-> "raised", json_path |-> "", results |-> <<>>, error |-> e]

InitPipeline ==
  /\ pc = "idle"
  /\ doc = [entry |-> "", ext |-> "", pages |-> 0]
  /\ max_batch_size = 0
  /\ page_idx = 0
  /\ all_results = <<>>
  /\ layout_results = <<>>
  /\ box_idx = 0
  /\ text_table_elements = <<>>
  /\ figure_results = <<>>
  /\ previous_box = NoBox
  /\ reading_order = 0
  /\ recognition_results = <<>>
  /\ calls = <<>>
  /\ boxes_seen = 0
  /\ json_out = NoJson
  /\ markdown_out = NoMarkdown
  /\ outcome = Running

Init ==
  /\ InitPipeline
  /\ html_text = PyNone
  /\ parsed = NotParsed
  /\ hpc = "off"

InitHtml ==
  /\ InitPipeline
  /\ html_text \in HtmlInputs
  /\ parsed = NotParsed
  /\ hpc = "ready"

\* A call of parse_html_to_json(html_text).
ParseHtml ==
  /\ hpc = "ready"
  /\ parsed' = parse_html_to_json(html_text)
  /\ hpc' = "done"
  /\ UNCHANGED <<html_text, pagevars, docvars>>

NextHtml == ParseHtml

SpecHtml == InitHtml /\ [][NextHtml]_vars

\* ------------------------------------------------------ process_document
\* The extension of the document's file name, lower-cased (lines 124 and
\* 433): a PDF, an image type the pipeline names as supported, and an image
\* type it does not (Image.open reads it all the same).
Exts == {".pdf", ".png", ".bmp"}

\* line 434
SupportedExts == {".jpg", ".jpeg", ".png", ".pdf"}

\* lines 124-133: a PDF; convert_pdf_to_images yields its pages, or none.
StartPdf ==
  /\ \E n \in 0..MaxPages, mbs \in BatchSizes :
       /\ doc' = [entry |-> "process_document", ext |-> ".pdf", pages |-> n]
       /\ max_batch_size' = mbs
       /\ IF n = 0
          THEN /\ outcome' = Raised("Failed to convert PDF to images")
               /\ pc' = "done"
          ELSE /\ outcome' = outcome
               /\ pc' = "page"
  /\ page_idx' = 0
  /\ all_results' = <<>>
  /\ UNCHANGED <<htmlvars, pagevars, recognition_results, calls, boxes_seen,
                 json_out, markdown_out>>

\* lines 160-164 of process_document and lines 114-115 of predict: the file
\* is opened as an image, whatever its extension.
StartImage(entry, ext, sizes) ==
  /\ \E opens \in BOOLEAN, mbs \in sizes :
       /\ doc' = [entry |-> entry, ext |-> ext, pages |-> IF opens THEN 1 ELSE 0]
       /\ max_batch_size' = mbs
       /\ IF opens
          THEN /\ outcome' = outcome
               /\ pc' = "page"
          ELSE /\ outcome' = Raised("cannot identify image file")
               /\ pc' = "done"
  /\ UNCHANGED <<htmlvars, pagevars, page_idx, all_results, recognition_results,
                 calls, boxes_seen, json_out, markdown_out>>

\* lines 122-164: '.pdf' goes to the PDF branch, anything else to the image
\* branch.
process_document(ext) ==
  IF ext = ".pdf" THEN StartPdf ELSE StartImage("process_document", ext, BatchSizes)

\* A caller hands a file to process_document.
ProcessDocument ==
  /\ pc = "idle" /\ hpc = "off"
  /\ \E ext \in Exts : process_document(ext)

\* main, lines 429-440 and 451-459: a single file; its extension is checked
\* before process_document is called.
MainFile ==
  /\ pc = "idle" /\ hpc = "off"
  /\ \E ext \in Exts :
       IF ext \notin SupportedExts
       THEN /\ doc' = [entry |-> "main", ext |-> ext, pages |-> 0]
            /\ outcome' = Raised("Unsupported file type")
            /\ pc' = "done"
            /\ UNCHANGED <<htmlvars, pagevars, max_batch_size, page_idx, all_results,
                           recognition_results, calls, boxes_seen, json_out,
                           markdown_out>>
       ELSE process_document(ext)

\* main, lines 420-428 and 451-459: a directory; glob collects only the files
\* with a supported extension, and each goes to process_document.
MainDirectory ==
  /\ pc = "idle" /\ hpc = "off"
  /\ \E ext \in Exts \cap SupportedExts : process_document(ext)

\* predict (src/api.py lines 103-129): the upload is opened as an image and
\* given to process_single_image with the service's max_batch_size; the file
\* name is used for the output name only.
Predict ==
  /\ pc = "idle" /\ hpc = "off"
  /\ \E ext \in Exts \ {".pdf"} : StartImage("predict", ext, {DefaultBatchSize})

\* process_single_image, lines 182-186, and process_elements, lines 200-205:
\* the layout call (which may fail) and the parsed layout.
ChatLayout ==
  /\ pc = "page"
  /\ \E ok \in BOOLEAN :
       /\ calls' = Append(calls, Went(LayoutCall(page_idx + 1), ok, <<>>))
       /\ IF ok
          THEN \E layout \in Layouts(MaxBoxes - boxes_seen) :
              /\ layout_results' = layout
              /\ boxes_seen' = boxes_seen + Len(layout)
              /\ pc' = "collect"
              /\ outcome' = outcome
          ELSE /\ layout_results' = <<>>
               /\ boxes_seen' = boxes_seen
               /\ pc' = "done"
               /\ outcome' = Raised("layout call failed")
  /\ box_idx' = 0
  /\ text_table_elements' = <<>>
  /\ figure_results' = <<>>
  /\ previous_box' = NoBox
  /\ reading_order' = 0
  /\ UNCHANGED <<htmlvars, doc, max_batch_size, page_idx, all_results,
                 recognition_results, json_out, markdown_out>>

\* The name process_document gives the page (0: the image of a single-image
\* document).
ImageName == IF doc.ext = ".pdf" THEN page_idx + 1 ELSE 0

\* lines 208-252: one turn of the loop over the boxes.
CollectBox ==
  /\ pc = "collect"
  /\ box_idx < Len(layout_results)
  /\ LET bbox == box_idx + 1
         box == layout_results[bbox]
         mapped == process_coordinates(box, bbox, previous_box)
     IN /\ box_idx' = bbox
        /\ previous_box' = mapped.previous_box
        /\ IF mapped.raised \/ box.geom = "crop_error"
           THEN UNCHANGED <<figure_results, text_table_elements, reading_order>>
           ELSE /\ reading_order' = reading_order + 1
                /\ IF box.geom = "zero"
                   THEN UNCHANGED <<figure_results, text_table_elements>>
                   ELSE IF box.label = "fig"
                   THEN /\ figure_results' =
                             Append(figure_results,
                                    FigureElement(box.label, ImageName, mapped.orig,
                                                  reading_order))
                        /\ UNCHANGED text_table_elements
                   ELSE /\ text_table_elements' =
                             Append(text_table_elements,
                                    QueuedElement(box.label, mapped.orig, reading_order))
                        /\ UNCHANGED figure_results
  /\ UNCHANGED <<htmlvars, layout_results, docvars>>

\* model.chat(prompts_list, crops_list, max_batch_size): one string per input,
\* in input order, or a failure of the whole call.
BackendAnswers(n) == [1..n -> BackendTexts]

\* lines 254-278: the recognition call, the merge and the sort.
Recognize ==
  /\ pc = "collect"
  /\ box_idx = Len(layout_results)
  /\ IF Len(text_table_elements) = 0
     THEN /\ recognition_results' = SortByReadingOrder(figure_results)
          /\ pc' = "elements"
          /\ UNCHANGED <<calls, outcome>>
     ELSE LET req == RecognitionCall(page_idx + 1, text_table_elements, max_batch_size) IN
          \E ok \in BOOLEAN :
            IF ok
            THEN \E batch_results \in BackendAnswers(Len(req.prompts)) :
                   /\ calls' = Append(calls, Went(req, TRUE, batch_results))
                   /\ recognition_results' =
                        SortByReadingOrder(
                          figure_results \o ZipResults(text_table_elements, batch_results))
                   /\ pc' = "elements"
                   /\ outcome' = outcome
            ELSE /\ calls' = Append(calls, Went(req, FALSE, <<>>))
                 /\ recognition_results' = recognition_results
                 /\ pc' = "done"
                 /\ outcome' = Raised("recognition call failed")
  /\ UNCHANGED <<htmlvars, pagevars, doc, max_batch_size, page_idx, all_results,
                 boxes_seen, json_out, markdown_out>>

\* lines 148-153, after process_single_image(save_individual=False) returned.
AppendPage ==
  /\ pc = "elements"
  /\ doc.ext = ".pdf"
  /\ all_results' = Append(all_results, [page_number |-> page_idx + 1,
                                         elements |-> recognition_results])
  /\ IF page_idx + 1 < doc.pages
     THEN /\ page_idx' = page_idx + 1
          /\ pc' = "page"
     ELSE /\ page_idx' = page_idx
          /\ pc' = "combine"
  /\ UNCHANGED <<htmlvars, pagevars, doc, max_batch_size, recognition_results, calls,
                 boxes_seen, json_out, markdown_out, outcome>>

\* lines 188-195 and save_outputs_with_html_parsing, lines 366-395: the JSON
\* file, then the markdown file, whose converter may raise.
SaveOutputs ==
  /\ pc = "elements"
  /\ doc.ext # ".pdf"
  /\ json_out' = [written |-> TRUE, kind |-> "list",
                  elements |-> JsonElements(recognition_results),
                  pages |-> <<>>, total_pages |-> 0]
  /\ \E converts \in BOOLEAN :
       IF converts
       THEN /\ markdown_out' = [written |-> TRUE, elements |-> recognition_results]
            /\ outcome' = Returned("recognition_json", recognition_results)
       ELSE /\ markdown_out' = markdown_out
            /\ outcome' = Raised("markdown conversion failed")
  /\ pc' = "done"
  /\ UNCHANGED <<htmlvars, pagevars, doc, max_batch_size, page_idx, all_results,
                 recognition_results, calls, boxes_seen>>

\* lines 156-158 and save_combined_pdf_results_with_html_parsing, lines
\* 281-363: the combined JSON file, then the markdown file inside try/except.
SaveCombined ==
  /\ pc = "combine"
  /\ json_out' = [written |-> TRUE, kind |-> "pdf", elements |-> <<>>,
                  pages |-> ProcessedPages(all_results),
                  total_pages |-> Len(ProcessedPages(all_results))]
  /\ \E converts \in BOOLEAN :
       markdown_out' = IF converts
                       THEN [written |-> TRUE, elements |-> AllElements(all_results, <<>>)]
                       ELSE markdown_out
  /\ outcome' = Returned("recognition_json", all_results)
  /\ pc' = "done"
  /\ UNCHANGED <<htmlvars, pagevars, doc, max_batch_size, page_idx, all_results,
                 recognition_results, calls, boxes_seen>>

Next ==
  \/ ProcessDocument
  \/ MainFile
  \/ MainDirectory
  \/ Predict
  \/ ChatLayout
  \/ CollectBox
  \/ Recognize
  \/ AppendPage
  \/ SaveOutputs
  \/ SaveCombined

Spec == Init /\ [][Next]_vars

\* ------------------------------------------------- claims on the normaliser
IsOpenOf(t, names) == Lex[t].k = "open" /\ Lex[t].name \in names
CountOf(s, names) == Cardinality({i \in 1..Len(s) : IsOpenOf(s[i], names)})

\* The input is a string that line 33 lets through to the markup parser.
IsMarkup(x) == x.ty = "str" /\ HasLt(x.s) /\ HasGt(x.s)
ParserRejects(x) == IsMarkup(x) /\ \E i \in 1..Len(x.s) : x.s[i] = "<!["
Parses(x) == IsMarkup(x) /\ ~ParserRejects(x)

\* An attribute value that str.isdigit() accepts and int() does not.
DigitNotInt(a) ==
  /\ a.present
  /\ IsDigit(a.v)
  /\ \E i \in 1..Len(a.v) : a.v[i] \notin AsciiDigits

\* Some cell of some row of some table carries such a colspan or rowspan.
SomeSpanFails(x) ==
  /\ Parses(x)
  /\ LET soup == BeautifulSoup(x.s) IN
     \E t \in 1..Len(x.s) : \E r \in 1..Len(x.s) : \E c \in 1..Len(x.s) :
       /\ IsOpenOf(x.s[t], {"table"})
       /\ IsOpenOf(x.s[r], {"tr"}) /\ t < r /\ r < soup.ends[t]
       /\ IsOpenOf(x.s[c], {"td", "th"}) /\ r < c /\ c < soup.ends[r]
       /\ (DigitNotInt(Lex[x.s[c]].colspan) \/ DigitNotInt(Lex[x.s[c]].rowspan))

\* C6: parse_html_to_json never raises; when the markup parser rejects the
\* input or a later step fails, it returns a text node whose content is the
\* input unchanged, with a parse_error field; and only then does a result
\* carry parse_error.
C6_NeverRaises ==
  hpc = "done" =>
    /\ ~parsed.raised
    /\ (ParserRejects(html_text) \/ SomeSpanFails(html_text)) =>
         /\ parsed.value.type = "text"
         /\ parsed.value.content = html_text
         /\ "parse_error" \in DOMAIN parsed.value
    /\ "parse_error" \in DOMAIN parsed.value =>
         /\ ParserRejects(html_text) \/ SomeSpanFails(html_text)
         /\ parsed.value.type = "text"
         /\ parsed.value.content = html_text

C6_Witness ==
  /\ hpc = "done"
  /\ ParserRejects(html_text)
  /\ Len(html_text.s) > 1
  /\ ~parsed.raised
  /\ "parse_error" \in DOMAIN parsed.value

\* The tables of a result: the table node itself, or those of multiple_tables.
TablesOf(node) ==
  IF node.type = "table" THEN <<node>>
  ELSE IF node.type = "multiple_tables" THEN node.tables
  ELSE <<>>

\* The value the claim gives a span attribute: its integer value when it is
\* present and numeric, 1 otherwise.
ClaimedSpan(a) ==
  IF a.present /\ Len(a.v) > 0 /\ (\A i \in 1..Len(a.v) : a.v[i] \in AsciiDigits)
  THEN Decimal(a.v)
  ELSE 1

\* C7: every table cell produced by parse_html_to_json has colspan >= 1 and
\* rowspan >= 1: the attribute's integer value when it is present and
\* numeric, 1 when it is absent or not numeric, "0" and "" included.
C7_SpansPositive ==
  (hpc = "done" /\ Parses(html_text) /\ ~parsed.raised) =>
    LET soup == BeautifulSoup(html_text.s)
        tables == TablesOf(parsed.value)
        found == FindAll(soup, {"table"})
    IN \A ti \in 1..Len(tables) :
         \A ri \in 1..Len(tables[ti].rows) :
           \A ci \in 1..Len(tables[ti].rows[ri]) :
             LET cell == tables[ti].rows[ri][ci]
                 tok == soup.toks[RowCells(soup, TableRows(soup, found[ti])[ri])[ci]]
             IN /\ cell.colspan >= 1
                /\ cell.rowspan >= 1
                /\ cell.colspan = ClaimedSpan(tok.colspan)
                /\ cell.rowspan = ClaimedSpan(tok.rowspan)

\* C8: when the markup contains at least one table element the result is that
\* table (exactly one table element) or multiple_tables with one table per
\* table element in document order (two or more); nothing else produces a
\* node.
C8_TablesWin ==
  (hpc = "done" /\ Parses(html_text) /\ CountOf(html_text.s, {"table"}) >= 1) =>
    LET n == CountOf(html_text.s, {"table"})
        soup == BeautifulSoup(html_text.s)
        found == FindAll(soup, {"table"})
    IN /\ ~parsed.raised
       /\ n = 1 => parsed.value.type = "table"
       /\ n >= 2 => /\ parsed.value.type = "multiple_tables"
                    /\ Len(parsed.value.tables) = n
       /\ \A ti \in 1..Len(TablesOf(parsed.value)) :
            /\ TablesOf(parsed.value)[ti].type = "table"
            /\ Len(TablesOf(parsed.value)[ti].rows) = Len(TableRows(soup, found[ti]))

\* The nodes of a result of the non-table branch.
ElementsOf(node) ==
  IF node.type = "mixed_content" THEN node.elements
  ELSE IF node.type \in {"list", "heading", "paragraph"} THEN <<node>>
  ELSE <<>>

\* C9: for markup without tables there is one node per list, heading and
\* paragraph element; one node is returned as it is, several as mixed_content
\* with all lists first, then all headings, then all paragraphs, each group
\* in document order; with none the result is a text node of the extracted
\* plain text.
C9_ListsHeadingsParagraphs ==
  (hpc = "done" /\ Parses(html_text) /\ CountOf(html_text.s, {"table"}) = 0) =>
    LET s == html_text.s
        soup == BeautifulSoup(s)
        nl == CountOf(s, ListNames)
        nh == CountOf(s, HeadingNames)
        np == CountOf(s, ParagraphNames)
        lists == SelectSeq(s, LAMBDA t : IsOpenOf(t, ListNames))
        heads == SelectSeq(s, LAMBDA t : IsOpenOf(t, HeadingNames))
        paras == FindAll(soup, ParagraphNames)
        node == parsed.value
        E == ElementsOf(node)
    IN /\ ~parsed.raised
       /\ "parse_error" \notin DOMAIN node
       /\ Len(E) = nl + nh + np
       /\ nl + nh + np = 1 => node.type \in {"list", "heading", "paragraph"}
       /\ nl + nh + np > 1 => node.type = "mixed_content"
       /\ nl + nh + np = 0 => /\ node.type = "text"
                              /\ node.content = Str(GetText(soup, 0))
       /\ \A i \in 1..Len(E) :
            /\ i <= nl =>
                 E[i].type = "list" /\ E[i].list_type = Lex[lists[i]].name
            /\ (nl < i /\ i <= nl + nh) =>
                 /\ E[i].type = "heading"
                 /\ E[i].level = HeadingLevel(Lex[heads[i - nl]].name)
                 /\ E[i].level \in 1..6
            /\ nl + nh < i =>
                 /\ E[i].type = "paragraph"
                 /\ E[i].content = GetText(soup, paras[i - nl - nh])

\* A paragraph precedes a heading and a heading precedes a list in the
\* markup, and the result lists them the other way round.
C9_Witness ==
  /\ hpc = "done"
  /\ Parses(html_text)
  /\ html_text.s = <<"<p>", "<h2>", "<ol>">>
  /\ parsed.value.type = "mixed_content"
  /\ Len(parsed.value.elements) = 3
  /\ parsed.value.elements[1].type = "list"
  /\ parsed.value.elements[3].type = "paragraph"

\* --------------------------------------------------- claims on the pipeline
\* process_elements has returned the list of the page in work.
ElementsReturned == pc = "elements"

RecognizeCalls(page) ==
  SelectSeq(calls, LAMBDA c : c.req.op = "recognize" /\ c.req.page = page)

\* C1: the reading_order values of the elements process_elements returns are
\* exactly 0..n-1 for its n elements, whatever the boxes (zero-area crops and
\* boxes that raise included).
C1_DenseReadingOrder ==
  ElementsReturned =>
    \A i \in 1..Len(recognition_results) : recognition_results[i].reading_order = i - 1

\* C2: when the recognition call fails on page k > 1 of a PDF,
\* process_document does not raise: it returns a result that holds pages
\* 1..k-1 with their elements.
C2_LaterPageFailureKeepsEarlierPages ==
  \A ci \in 1..Len(calls) :
    (/\ pc = "done"
     /\ doc.ext = ".pdf"
     /\ calls[ci].req.op = "recognize"
     /\ ~calls[ci].ok
     /\ calls[ci].req.page > 1) =>
      /\ outcome.status = "returned"
      /\ Len(outcome.results) >= calls[ci].req.page - 1
      /\ \A p \in 1..(calls[ci].req.page - 1) :
           /\ outcome.results[p].page_number = p
           /\ outcome.results[p] = all_results[p]

\* e is the element made of the queued element q.
MadeOf(e, q) ==
  /\ e.label = q.label
  /\ e.bbox = q.bbox
  /\ e.reading_order = q.reading_order
  /\ "figure_path" \notin DOMAIN e

\* C3: the list process_elements returns holds every figure element and every
\* recognised text/table element exactly once, in strictly ascending
\* reading_order, whatever the interleaving of figures and other boxes.
C3_MergedAndSorted ==
  ElementsReturned =>
    /\ Len(recognition_results) = Len(figure_results) + Len(text_table_elements)
    /\ \A i \in 1..Len(figure_results) :
         Cardinality({j \in 1..Len(recognition_results) :
                        recognition_results[j] = figure_results[i]}) = 1
    /\ \A i \in 1..Len(text_table_elements) :
         Cardinality({j \in 1..Len(recognition_results) :
                        MadeOf(recognition_results[j], text_table_elements[i])}) = 1
    /\ \A i \in 1..Len(recognition_results) : \A j \in 1..Len(recognition_results) :
         i < j => recognition_results[i].reading_order < recognition_results[j].reading_order

\* A text box came before a figure and a figure before a text box.
C3_Witness ==
  /\ ElementsReturned
  /\ Len(recognition_results) = 3
  /\ recognition_results[1].label = "para"
  /\ recognition_results[2].label = "fig"
  /\ recognition_results[3].label = "tab"

AllSpaces(s) == \A i \in 1..Len(s) : s[i] = " "

\* t is s without its leading and trailing blanks.
IsStripOf(t, s) ==
  /\ Len(t) > 0 => (t[1] # " " /\ t[Len(t)] # " ")
  /\ \E a \in 0..Len(s) : \E b \in 0..Len(s) :
       /\ a + Len(t) + b = Len(s)
       /\ AllSpaces(SubSeq(s, 1, a))
       /\ SubSeq(s, a + 1, a + Len(t)) = t
       /\ AllSpaces(SubSeq(s, a + Len(t) + 1, Len(s)))

NonFigures(results) == SelectSeq(results, LAMBDA e : "figure_path" \notin DOMAIN e)

\* C5: with a backend that answers one string per input in input order, a
\* page with k queued elements yields exactly k non-figure elements, and the
\* i-th queued element's label, bbox and reading_order go with the i-th
\* answer, stripped of surrounding whitespace.
C5_PairedByPosition ==
  (ElementsReturned /\ Len(text_table_elements) > 0) =>
    LET k == Len(text_table_elements)
        answer == RecognizeCalls(page_idx + 1)[1].answer
        out == NonFigures(recognition_results)
    IN /\ Len(answer) = k
       /\ Len(out) = k
       /\ \A i \in 1..k :
            /\ MadeOf(out[i], text_table_elements[i])
            /\ IsStripOf(out[i].text, answer[i])

\* Two queued elements got different answers, one of them all blank.
C5_Witness ==
  /\ ElementsReturned
  /\ Len(text_table_elements) = 2
  /\ LET answer == RecognizeCalls(page_idx + 1)[1].answer
         out == NonFigures(recognition_results)
     IN /\ answer[1] = <<" ">>
        /\ answer[2] # answer[1]
        /\ out[1].text = <<>>
        /\ out[2].text = <<"<p>", "1", "</p>">>

\* Every element of the JSON file written.
JsonFileElements ==
  IF json_out.kind = "list" THEN {json_out.elements[i] : i \in 1..Len(json_out.elements)}
  ELSE UNION {{json_out.pages[p].elements[i] : i \in 1..Len(json_out.pages[p].elements)} :
                p \in 1..Len(json_out.pages)}

\* C10: every element of the JSON result (a single image's list, every page
\* of a PDF result) carries parsed_content, also when its text is empty after
\* trimming.
C10_EveryElementParsed ==
  (json_out.written /\ outcome.status = "returned") => \A e \in JsonFileElements : "parsed_content" \in DOMAIN e

\* The markdown converter was unavailable or failed: the JSON file is written
\* and the markdown file is not.
MarkdownSkipped == pc = "done" /\ json_out.written /\ ~markdown_out.written

\* C11: when the markdown converter is unavailable or fails, the pipeline
\* still completes, on the single-image path and on the PDF path alike: the
\* JSON result is written, its path and the recognition results are returned
\* and no exception propagates; only the markdown file is missing.
C11_MarkdownFailureTolerated ==
  MarkdownSkipped =>
    /\ outcome.status = "returned"
    /\ outcome.json_path = "recognition_json"
    /\ outcome.results = IF doc.ext = ".pdf" THEN all_results ELSE recognition_results

\* The text field of an element holds something.
HasContent(e) == "text" \in DOMAIN e /\ Len(e.text) > 0

\* C12: every element process_elements returns has exactly one of text and
\* figure_path populated, by its label alone: a figure element carries
\* figure_path and no text, any other element carries its text field (the
\* recognised text, which may be empty) and no figure_path.
C12_TextOrFigurePath ==
  ElementsReturned =>
    \A i \in 1..Len(recognition_results) :
      LET e == recognition_results[i] IN
      IF e.label = "fig"
      THEN "figure_path" \in DOMAIN e /\ ~HasContent(e)
      ELSE "text" \in DOMAIN e /\ "figure_path" \notin DOMAIN e

\* C13: the pages of a PDF are processed one after another in page-index
\* order: the backend calls are in page order and none is made for page k+1
\* before the element list of page k is in all_results; when all N pages
\* succeed, the result and the JSON file hold page_number 1..N in that order,
\* total_pages is N and every page keeps its own element list.
C13_PagesInOrder ==
  doc.ext = ".pdf" =>
    /\ \A p \in 1..Len(all_results) : all_results[p].page_number = p
    /\ \A ci \in 1..Len(calls) :
         /\ calls[ci].req.page <= Len(all_results) + 1
         /\ \A cj \in 1..Len(calls) :
              ci < cj => calls[ci].req.page <= calls[cj].req.page
    /\ (pc = "done" /\ outcome.status = "returned") =>
         /\ Len(outcome.results) = doc.pages
         /\ json_out.written
         /\ json_out.kind = "pdf"
         /\ json_out.total_pages = doc.pages
         /\ Len(json_out.pages) = doc.pages
         /\ \A p \in 1..doc.pages :
              /\ outcome.results[p].page_number = p
              /\ json_out.pages[p].page_number = p
              /\ Len(json_out.pages[p].elements) = Len(outcome.results[p].elements)
              /\ \A i \in 1..Len(outcome.results[p].elements) :
                   /\ json_out.pages[p].elements[i].bbox =
                        outcome.results[p].elements[i].bbox
                   /\ json_out.pages[p].elements[i].reading_order =
                        outcome.results[p].elements[i].reading_order

\* A PDF of two pages, each with elements, went through: four backend calls.
C13_Witness ==
  /\ pc = "done"
  /\ doc.ext = ".pdf"
  /\ doc.pages = 2
  /\ outcome.status = "returned"
  /\ json_out.total_pages = 2
  /\ Len(json_out.pages[1].elements) > 0
  /\ Len(json_out.pages[2].elements) > 0
  /\ Len(calls) = 4
  /\ calls[2].req.page = 1
  /\ calls[3].req.page = 2

\* The boxes the loop has taken so far that went through without an
\* exception, and the last of them (NoBox when there is none).
DoneWithoutError ==
  {i \in 1..box_idx : layout_results[i].geom \in {"ok", "zero"}}

LastWithoutError ==
  IF DoneWithoutError = {} THEN NoBox
  ELSE CHOOSE i \in DoneWithoutError : \A j \in DoneWithoutError : j <= i

Emitted == {i \in 1..box_idx : layout_results[i].geom = "ok"}

\* C15: an error raised while mapping the coordinates of a region, cropping
\* it or saving it is absorbed: the loop goes on, every other region with a
\* crop is emitted, and previous_box and reading_order are what the last
\* region processed without error left; both start afresh on every page.
C15_RegionErrorAbsorbed ==
  pc = "collect" =>
    /\ Len(figure_results) + Len(text_table_elements) = Cardinality(Emitted)
    /\ reading_order = Cardinality(DoneWithoutError)
    /\ previous_box = LastWithoutError
    /\ box_idx = 0 => (previous_box = NoBox /\ reading_order = 0)

SeparatorsAt(elements) ==
  {i \in 1..Len(elements) : elements[i].label = "page_separator"}

\* C16: the list handed to the markdown converter for a PDF of N pages is the
\* pages' element lists in page order with exactly one page_separator
\* between every two consecutive pages: N-1 separators, also when some pages
\* have no elements; the JSON pages hold no separator.
C16_SeparatorBetweenPages ==
  (pc = "done" /\ doc.ext = ".pdf" /\ markdown_out.written) =>
    LET all_elements == markdown_out.elements
        seps == SeparatorsAt(all_elements)
    IN /\ Cardinality(seps) = doc.pages - 1
       /\ SelectSeq(all_elements, LAMBDA e : e.label # "page_separator") =
            FlattenPages(all_results)
       /\ \A p \in 1..Len(json_out.pages) :
            SeparatorsAt(json_out.pages[p].elements) = {}

\* C14: a file whose type is not jpg, jpeg, png or pdf is rejected with an
\* error before any processing begins, however it comes in (process_document,
\* the command line with a file or a directory, the predict endpoint): no
\* layout or recognition call is made for it and no output is written.
C14_UnsupportedRejected ==
  (pc # "idle" /\ doc.ext \notin SupportedExts) =>
    /\ calls = <<>>
    /\ ~json_out.written
    /\ ~markdown_out.written
    /\ pc = "done" => outcome.status = "raised"

\* The pages that have elements, and the place in the combined list where the
\* separator after the k-th of them stands.
PagesWithElements == SelectSeq(all_results, LAMBDA pg : Len(pg.elements) > 0)

RECURSIVE SeparatorAfter(_, _)
SeparatorAfter(pages, k) ==
  IF k = 0 THEN 0 ELSE SeparatorAfter(pages, k - 1) + Len(pages[k].elements) + 1

\* C16 as amended: the list handed to the markdown converter is the pages'
\* element lists in page order with exactly one page_separator between every
\* two consecutive pages that have elements: one less than the number of such
\* pages, never first, never last, never two adjacent; a page without
\* elements adds nothing; the JSON pages hold no separator.
C16_SeparatorBetweenPagesWithElements ==
  (pc = "done" /\ doc.ext = ".pdf" /\ markdown_out.written) =>
    LET all_elements == markdown_out.elements
        seps == SeparatorsAt(all_elements)
        k == Len(PagesWithElements)
    IN /\ seps = {SeparatorAfter(PagesWithElements, j) : j \in 1..(k - 1)}
       /\ Cardinality(seps) = IF k = 0 THEN 0 ELSE k - 1
       /\ 1 \notin seps
       /\ Len(all_elements) \notin seps
       /\ \A i \in seps : i + 1 \notin seps
       /\ SelectSeq(all_elements, LAMBDA e : e.label # "page_separator") =
            FlattenPages(all_results)
       /\ \A p \in 1..Len(json_out.pages) :
            SeparatorsAt(json_out.pages[p].elements) = {}

\* Two pages with elements: one separator, between them.
C16_Witness ==
  /\ pc = "done"
  /\ doc.ext = ".pdf"
  /\ markdown_out.written
  /\ Len(all_results) = 2
  /\ Len(all_results[1].elements) = 2
  /\ Len(all_results[2].elements) = 1
  /\ SeparatorsAt(markdown_out.elements) = {3}
  /\ Len(markdown_out.elements) = 4

====
